---- MODULE Spec2Model ----
(***************************************************************************)
(* Model of pump-sniper-grpc: the transaction stream watcher               *)
(* (monitor_transactions / handle_create_instruction), the batch window    *)
(* scheduler (monitor_batches), the account state watcher (monitor_batch / *)
(* handle_account_update), the two binary decoders and the buy builder.    *)
(*                                                                         *)
(* The two tokio tasks run in parallel (multi-thread runtime): every       *)
(* action below is one step of one task, and the std::sync::Mutex guards   *)
(* are modelled explicitly, so every interleaving of the tasks' critical   *)
(* sections is a behaviour of Spec.                                        *)
(***************************************************************************)
EXTENDS Integers, Sequences, FiniteSets, TLC

(***************************************************************************)
(* Bounds of the model.                                                    *)
(***************************************************************************)
\* number of distinct mints the transaction feed can announce
NumMints == 2
\* longest name and symbol, in characters, of the create payloads decoded
\* on their own
MaxStrLen == 2
\* config.monitoring_window_secs of the modelled run (default 40 in the code)
MonitoringWindowSecs == 1

(***************************************************************************)
(* Program constants.                                                      *)
(***************************************************************************)
\* monitor_transaction.rs imports CREATE_DISCRIMINATOR from utils::constants,
\* which is not part of the sources; the value is the 8-byte create opcode.
CREATE_DISCRIMINATOR == <<24, 30, 200, 40, 5, 28, 7, 119>>
BUY_DISCRIMINATOR == <<102, 6, 61, 18, 1, 218, 235, 234>>
\* helper_functions.rs: virtual_sol_reserves as f64 / 1_000_000_000.0
LAMPORTS_PER_SOL == 1000000000
\* bonding_curve.rs: minimum length accepted by from_account_data
MIN_ACCOUNT_LEN == 57
\* buy.rs: fee_recipient_start = 8 + 1 + 32, fee_recipient_end = start + 32
FEE_RECIPIENT_START == 41
FEE_RECIPIENT_END == 73
\* char::REPLACEMENT_CHARACTER, what String::from_utf8_lossy substitutes
REPLACEMENT_CHARACTER == 65533

\* The immutable Config snapshot of the modelled run (Config::from_env) and
\* the oracle price fetched once in main.  1 USD at 1 USD/SOL puts the
\* eligibility threshold at exactly 1 SOL of virtual quote reserves.
Config ==
    [ min_market_cap_usd |-> 1,
      monitoring_window_secs |-> MonitoringWindowSecs ]
coingecko_sol_usd_price == 1

(***************************************************************************)
(* Generic helpers.                                                        *)
(***************************************************************************)
Range(s) == { s[i] : i \in 1..Len(s) }

Min(a, b) == IF a <= b THEN a ELSE b

\* data[from..to) of a Rust slice, 0-based and end-exclusive, on a 1-based
\* TLA+ sequence.  Only used where the code has already checked the bounds.
Slice(data, from, to) == SubSeq(data, from + 1, to)

\* data.starts_with(prefix)
StartsWith(data, prefix) ==
    /\ Len(data) >= Len(prefix)
    /\ SubSeq(data, 1, Len(prefix)) = prefix

\* uN::from_le_bytes on a byte sequence (Horner form, most significant first)
RECURSIVE from_le_bytes(_)
from_le_bytes(bytes) ==
    IF bytes = <<>> THEN 0
    ELSE Head(bytes) + 256 * from_le_bytes(Tail(bytes))

\* uN::to_le_bytes: the n little-endian bytes of v
RECURSIVE to_le_bytes(_, _)
to_le_bytes(v, n) ==
    IF n = 0 THEN <<>>
    ELSE <<v % 256>> \o to_le_bytes(v \div 256, n - 1)

\* n bytes of value b
RECURSIVE Repeat(_, _)
Repeat(b, n) == IF n = 0 THEN <<>> ELSE <<b>> \o Repeat(b, n - 1)

\* String::from_utf8_lossy for bytes below 0xE0: ASCII bytes and well-formed
\* two-byte sequences decode to their code point, every other byte becomes
\* U+FFFD.  A string is the sequence of its code points.
RECURSIVE from_utf8_lossy(_)
from_utf8_lossy(bytes) ==
    IF bytes = <<>> THEN <<>>
    ELSE LET b == Head(bytes) IN
         IF b < 128 THEN <<b>> \o from_utf8_lossy(Tail(bytes))
         ELSE IF /\ b >= 194 /\ b <= 223 /\ Len(bytes) >= 2
                 /\ bytes[2] >= 128 /\ bytes[2] <= 191
              THEN <<(b - 192) * 64 + (bytes[2] - 128)>>
                       \o from_utf8_lossy(Tail(Tail(bytes)))
              ELSE <<REPLACEMENT_CHARACTER>> \o from_utf8_lossy(Tail(bytes))

(***************************************************************************)
(* parser/create_instruction.rs                                            *)
(***************************************************************************)
ParseErr(msg) == [ok |-> FALSE, err |-> msg]

\* line 38: the symbol is data[offset..offset + symbol_len]; this is the end
\* of that slice
SymbolEndOfData(data, offset, symbol_len) == Len(data)
SymbolEnd(data, offset, symbol_len) == offset + symbol_len

\* line 35: offset + symbol_len > data.len()
SymbolOutOfBoundsOrAtEnd(end, len) == end >= len
SymbolOutOfBounds(end, len) == end > len

parse_create_instruction(data) ==
    IF Len(data) < 8 THEN ParseErr("Data too short")
    ELSE IF 8 + 4 > Len(data) THEN ParseErr("Cannot read name length")
    ELSE
      LET name_len == from_le_bytes(Slice(data, 8, 12))
          offset1 == 12
      IN
      IF offset1 + name_len > Len(data) THEN ParseErr("Name data out of bounds")
      ELSE
        LET name == from_utf8_lossy(Slice(data, offset1, offset1 + name_len))
            offset2 == offset1 + name_len
        IN
        IF offset2 + 4 > Len(data) THEN ParseErr("Cannot read symbol length")
        ELSE
          LET symbol_len == from_le_bytes(Slice(data, offset2, offset2 + 4))
              offset3 == offset2 + 4
          IN
          IF SymbolOutOfBounds(offset3 + symbol_len, Len(data))
          THEN ParseErr("Symbol data out of bounds")
          ELSE [ok |-> TRUE,
                name |-> name,
                symbol |-> from_utf8_lossy(
                               Slice(data, offset3,
                                     SymbolEnd(data, offset3, symbol_len)))]

\* str::as_bytes of a string whose characters are below U+0800: the UTF-8
\* bytes that from_utf8_lossy reads back
RECURSIVE to_utf8(_)
to_utf8(str) ==
    IF str = <<>> THEN <<>>
    ELSE LET c == Head(str) IN
         (IF c < 128 THEN <<c>> ELSE <<192 + (c \div 64), 128 + (c % 64)>>)
             \o to_utf8(Tail(str))

\* the payload of a create instruction as parse_create_instruction reads
\* it: the opcode, then name and symbol, each behind its u32 byte length
EncodeCreate(name, symbol) ==
    CREATE_DISCRIMINATOR
        \o to_le_bytes(Len(to_utf8(name)), 4) \o to_utf8(name)
        \o to_le_bytes(Len(to_utf8(symbol)), 4) \o to_utf8(symbol)

(***************************************************************************)
(* types/bonding_curve.rs                                                  *)
(***************************************************************************)
\* The bytes a BondingCurve account holds: the 8-byte account tag, the five
\* u64 fields, the bool, then creator_len bytes of the creator (32 in the
\* current program version, none in the older one).
EncodeCurve(vtr, vsr, rtr, rsr, supply, complete, creator_len) ==
    Repeat(7, 8) \o to_le_bytes(vtr, 8) \o to_le_bytes(vsr, 8)
        \o to_le_bytes(rtr, 8) \o to_le_bytes(rsr, 8) \o to_le_bytes(supply, 8)
        \o <<IF complete THEN 1 ELSE 0>> \o Repeat(9, creator_len)

\* BondingCurve::from_account_data.  kind is "ok" (Ok(curve)), "err"
\* (Err("Account data too short")) or "panic": the slice
\* data[offset + 41..offset + 73] is taken without a length check, so a
\* buffer of 57..80 bytes passes the check of line 18 and panics at line 30.
from_account_data(data) ==
    IF Len(data) < MIN_ACCOUNT_LEN
    THEN [kind |-> "err", err |-> "Account data too short"]
    ELSE LET offset == 8 IN
         IF Len(data) < offset + 73
         THEN [kind |-> "panic", err |-> "range end index out of range"]
         ELSE [kind |-> "ok",
               virtual_token_reserves |->
                   from_le_bytes(Slice(data, offset, offset + 8)),
               virtual_sol_reserves |->
                   from_le_bytes(Slice(data, offset + 8, offset + 16)),
               real_token_reserves |->
                   from_le_bytes(Slice(data, offset + 16, offset + 24)),
               real_sol_reserves |->
                   from_le_bytes(Slice(data, offset + 24, offset + 32)),
               token_total_supply |->
                   from_le_bytes(Slice(data, offset + 32, offset + 40)),
               complete |-> data[offset + 40 + 1] # 0,
               creator |-> Slice(data, offset + 41, offset + 73)]

(***************************************************************************)
(* utils/helper_functions.rs, utils/config.rs                              *)
(***************************************************************************)
\* An f64 quotient is kept as the exact fraction <<numerator, denominator>>;
\* the values of the model are small enough for the f64 results to compare
\* as the fractions do.
calculate_market_cap(virtual_sol_reserves, sol_price_usd) ==
    [sol |-> <<virtual_sol_reserves, LAMPORTS_PER_SOL>>,
     usd |-> <<virtual_sol_reserves * sol_price_usd, LAMPORTS_PER_SOL>>]

min_market_cap_sol(config, sol_usd_price) ==
    <<config.min_market_cap_usd, sol_usd_price>>

\* a >= b on f64 quotients with positive denominators; x / 0.0 is +inf for
\* x > 0 and NaN for x = 0, and no finite value is >= either of them.
FloatGt(a, b) ==
    IF b[2] = 0 THEN FALSE
    ELSE a[1] * b[2] > b[1] * a[2]
FloatGe(a, b) ==
    IF b[2] = 0 THEN FALSE
    ELSE a[1] * b[2] >= b[1] * a[2]

\* monitor_account.rs lines 174-182: market_cap.0 >=
\* config.min_market_cap_sol(coingecko_sol_usd_price)
Eligible(virtual_sol_reserves, config, sol_usd_price) ==
    FloatGe(calculate_market_cap(virtual_sol_reserves, sol_usd_price).sol,
            min_market_cap_sol(config, sol_usd_price))

\* the decision for a decoded curve under the configuration of the run
IsEligible(curve) ==
    Eligible(curve.virtual_sol_reserves, Config, coingecko_sol_usd_price)

(***************************************************************************)
(* u64 and f64 arithmetic of execute_ixs/buy.rs.  A natural number of any   *)
(* size is the sequence of its base-10000 digits, least significant first, *)
(* without leading zeros (0 is the empty sequence).                        *)
(***************************************************************************)
BigBase == 10000

RECURSIVE BigNorm(_)
BigNorm(a) ==
    IF a = <<>> THEN <<>>
    ELSE IF a[Len(a)] = 0 THEN BigNorm(SubSeq(a, 1, Len(a) - 1))
    ELSE a

RECURSIVE BigOf(_)
BigOf(n) ==
    IF n = 0 THEN <<>> ELSE <<n % BigBase>> \o BigOf(n \div BigBase)

\* the number written in groups of four decimal digits, most significant
\* group first: Big(<<33, 2225, 9136>>) is 3_322_259_136
RECURSIVE Reverse(_)
Reverse(a) == IF a = <<>> THEN <<>> ELSE Reverse(Tail(a)) \o <<Head(a)>>
Big(groups) == BigNorm(Reverse(groups))

\* -1, 0, 1 as a < b, a = b, a > b
RECURSIVE BigCmpFrom(_, _, _)
BigCmpFrom(a, b, i) ==
    IF i = 0 THEN 0
    ELSE IF a[i] < b[i] THEN -1
    ELSE IF a[i] > b[i] THEN 1
    ELSE BigCmpFrom(a, b, i - 1)
BigCmp(a, b) ==
    IF Len(a) < Len(b) THEN -1
    ELSE IF Len(a) > Len(b) THEN 1
    ELSE BigCmpFrom(a, b, Len(a))
BigLe(a, b) == BigCmp(a, b) <= 0
BigLt(a, b) == BigCmp(a, b) < 0

RECURSIVE BigAddCarry(_, _, _)
BigAddCarry(a, b, carry) ==
    IF a = <<>> /\ b = <<>> THEN (IF carry = 0 THEN <<>> ELSE <<carry>>)
    ELSE LET x == IF a = <<>> THEN 0 ELSE Head(a)
             y == IF b = <<>> THEN 0 ELSE Head(b)
             t == x + y + carry
         IN <<t % BigBase>>
                \o BigAddCarry(IF a = <<>> THEN <<>> ELSE Tail(a),
                               IF b = <<>> THEN <<>> ELSE Tail(b),
                               t \div BigBase)
BigAdd(a, b) == BigAddCarry(a, b, 0)

\* a - b for a >= b
RECURSIVE BigSubBorrow(_, _, _)
BigSubBorrow(a, b, borrow) ==
    IF a = <<>> THEN <<>>
    ELSE LET y == IF b = <<>> THEN 0 ELSE Head(b)
             t == Head(a) - y - borrow
         IN <<IF t < 0 THEN t + BigBase ELSE t>>
                \o BigSubBorrow(Tail(a), IF b = <<>> THEN <<>> ELSE Tail(b),
                                IF t < 0 THEN 1 ELSE 0)
BigSub(a, b) == BigNorm(BigSubBorrow(a, b, 0))

\* a * k for 0 <= k <= BigBase
RECURSIVE BigMulSmallCarry(_, _, _)
BigMulSmallCarry(a, k, carry) ==
    IF a = <<>> THEN (IF carry = 0 THEN <<>> ELSE BigOf(carry))
    ELSE LET t == Head(a) * k + carry
         IN <<t % BigBase>> \o BigMulSmallCarry(Tail(a), k, t \div BigBase)
BigMulSmall(a, k) == IF k = 0 THEN <<>> ELSE BigMulSmallCarry(a, k, 0)

RECURSIVE BigMul(_, _)
BigMul(a, b) ==
    IF a = <<>> \/ b = <<>> THEN <<>>
    ELSE LET rest == BigMul(a, Tail(b)) IN
         IF rest = <<>> THEN BigMulSmall(a, Head(b))
         ELSE BigAdd(<<0>> \o rest, BigMulSmall(a, Head(b)))

\* the largest digit q in lo..hi with b * q <= r
RECURSIVE BigQuotDigit(_, _, _, _)
BigQuotDigit(r, b, lo, hi) ==
    IF lo = hi THEN lo
    ELSE LET mid == (lo + hi + 1) \div 2 IN
         IF BigLe(BigMulSmall(b, mid), r)
         THEN BigQuotDigit(r, b, mid, hi)
         ELSE BigQuotDigit(r, b, lo, mid - 1)

\* long division of the digits a[i..] by b > 0: the quotient (most
\* significant digit first) and the remainder
RECURSIVE BigDivFrom(_, _, _)
BigDivFrom(a, b, i) ==
    IF i > Len(a) THEN [q |-> <<>>, r |-> <<>>]
    ELSE LET upper == BigDivFrom(a, b, i + 1) IN
         IF upper.r = <<>> /\ BigLt(<<a[i]>>, b)
         THEN [q |-> upper.q \o <<0>>, r |-> BigNorm(<<a[i]>>)]
         ELSE LET r == <<a[i]>> \o upper.r
                  Step(d) == [q |-> upper.q \o <<d>>,
                              r |-> BigSub(r, BigMulSmall(b, d))]
              IN Step(BigQuotDigit(r, b, 0, BigBase - 1))
BigDivMod(a, b) ==
    LET Result(x) == [q |-> Big(x.q), r |-> x.r] IN Result(BigDivFrom(a, b, 1))

\* 2^k, by squaring
RECURSIVE BigPow2(_)
BigPow2(k) ==
    IF k = 0 THEN <<1>>
    ELSE LET h == BigPow2(k \div 2)
         IN BigMulSmall(BigMul(h, h), IF k % 2 = 0 THEN 1 ELSE 2)

(***************************************************************************)
(* An f64 is "nan", "inf" (positive infinity) or a non-negative number,    *)
(* the exact fraction n / d of two naturals; every operation rounds its    *)
(* exact result to 53 significant bits, ties to even, as IEEE 754 binary64 *)
(* does (no value of the program is near the subnormal or overflow range,  *)
(* and none is negative).                                                  *)
(***************************************************************************)
MantissaBits == 53
\* 2^13 < BigBase < 2^14: a number of k digits lies in 2^(13(k-1)) .. 2^(14k)
BitsPerDigit == 14

\* 2^k <= n / d, for any integer k
Pow2Le(k, n, d) ==
    LET scaled == BigMul(IF k >= 0 THEN d ELSE n,
                         BigPow2(IF k >= 0 THEN k ELSE -k))
    IN IF k >= 0 THEN BigLe(scaled, n) ELSE BigLe(d, scaled)

\* the largest k in lo..hi with 2^k <= n / d
RECURSIVE Log2Floor(_, _, _, _)
Log2Floor(n, d, lo, hi) ==
    IF lo = hi THEN lo
    ELSE LET mid == (lo + hi + 1) \div 2 IN
         IF Pow2Le(mid, n, d) THEN Log2Floor(n, d, mid, hi)
         ELSE Log2Floor(n, d, lo, mid - 1)

\* x / y rounded to the nearest natural, ties to the even one
RoundHalfEven(x, y) ==
    LET Odd(q) == q # <<>> /\ q[1] % 2 = 1
        Up(q, twice) == twice > 0 \/ (twice = 0 /\ Odd(q))
        Round(dm) ==
            BigAdd(dm.q, IF Up(dm.q, BigCmp(BigMulSmall(dm.r, 2), y))
                         THEN <<1>> ELSE <<>>)
    IN Round(BigDivMod(x, y))

\* the f64 nearest to n / d (d > 0): with 2^e <= n / d < 2^(e+1) and
\* s = 52 - e, the mantissa is n * 2^s / d rounded, and the value is the
\* mantissa over 2^s (up is 2^s for s >= 0, down is 2^-s for s < 0)
RoundF64(n, d) ==
    IF n = <<>> THEN [kind |-> "num", n |-> <<>>, d |-> <<1>>]
    ELSE LET Scaled(up, down) ==
                 [kind |-> "num",
                  n |-> BigMul(RoundHalfEven(BigMul(n, up), BigMul(d, down)),
                               down),
                  d |-> up]
             Shift(s) == Scaled(BigPow2(IF s >= 0 THEN s ELSE 0),
                                BigPow2(IF s >= 0 THEN 0 ELSE -s))
         IN Shift((MantissaBits - 1)
                      - Log2Floor(n, d,
                                  (BitsPerDigit - 1) * (Len(n) - 1)
                                      - BitsPerDigit * Len(d),
                                  BitsPerDigit * Len(n)
                                      - (BitsPerDigit - 1) * (Len(d) - 1)))

F64Nan == [kind |-> "nan", n |-> <<>>, d |-> <<1>>]
F64Inf == [kind |-> "inf", n |-> <<>>, d |-> <<1>>]

\* f64 expressions of the source, as terms that F64Eval computes:
\* `x as f64` for a u64 x
u64_as_f64(x) == [op |-> "u64", n |-> x, d |-> <<1>>]
\* a decimal literal num / den of the source, as the compiler rounds it
F64Literal(num, den) == [op |-> "u64", n |-> BigOf(num), d |-> BigOf(den)]
F64Mul(a, b) == [op |-> "mul", x |-> a, y |-> b]
F64Div(a, b) == [op |-> "div", x |-> a, y |-> b]
F64Add(a, b) == [op |-> "add", x |-> a, y |-> b]
\* a - b for finite a >= b
F64Sub(a, b) == [op |-> "sub", x |-> a, y |-> b]

\* the exact result of one operation on the f64 values a and b (for
\* non-negative values), before rounding
F64Exact(op, a, b) ==
    IF a.kind = "nan" \/ b.kind = "nan" THEN F64Nan
    ELSE IF op = "mul"
    THEN (IF a.kind = "inf" \/ b.kind = "inf"
          THEN (IF (a.kind = "num" /\ a.n = <<>>)
                    \/ (b.kind = "num" /\ b.n = <<>>)
                THEN F64Nan ELSE F64Inf)
          ELSE [kind |-> "num", n |-> BigMul(a.n, b.n),
                d |-> BigMul(a.d, b.d)])
    ELSE IF op = "div"
    THEN (IF a.kind = "inf"
          THEN (IF b.kind = "inf" THEN F64Nan ELSE F64Inf)
          ELSE IF b.kind = "inf" THEN [kind |-> "num", n |-> <<>>, d |-> <<1>>]
          ELSE IF b.n = <<>>
          THEN (IF a.n = <<>> THEN F64Nan ELSE F64Inf)
          ELSE [kind |-> "num", n |-> BigMul(a.n, b.d),
                d |-> BigMul(a.d, b.n)])
    ELSE IF a.kind = "inf" \/ b.kind = "inf" THEN F64Inf
    ELSE LET Sum(an, bn) ==
                 IF op = "add" THEN BigAdd(an, bn) ELSE BigSub(an, bn)
         IN [kind |-> "num",
             n |-> Sum(BigMul(a.n, b.d), BigMul(b.n, a.d)),
             d |-> BigMul(a.d, b.d)]

\* the f64 value of a term: every operation rounds its exact result
RECURSIVE F64Eval(_)
F64Eval(e) ==
    LET Round(exact) ==
            IF exact.kind = "num" THEN RoundF64(exact.n, exact.d) ELSE exact
    IN Round(IF e.op = "u64" THEN [kind |-> "num", n |-> e.n, d |-> e.d]
             ELSE F64Exact(e.op, F64Eval(e.x), F64Eval(e.y)))

\* u64::MAX, 18_446_744_073_709_551_615
U64Max == Big(<<1844, 6744, 737, 955, 1615>>)

\* `x as u64` of an f64 term: the fraction is dropped, NaN is 0, too large
\* values saturate
f64_as_u64(e) ==
    LET Saturate(q) == IF BigLe(q, U64Max) THEN q ELSE U64Max
        Cast(x) == IF x.kind = "nan" THEN <<>>
                   ELSE IF x.kind = "inf" THEN U64Max
                   ELSE Saturate(BigDivMod(x.n, x.d).q)
    IN Cast(F64Eval(e))

(***************************************************************************)
(* execute_ixs/buy.rs                                                      *)
(***************************************************************************)
\* calculate_tokens_with_slippage (lines 41-59), for slippage_bps up to 10000
calculate_tokens_with_slippage(virtual_sol_reserves, virtual_token_reserves, sol_amount, slippage_bps) ==
    LET sol_reserves_f64 == u64_as_f64(virtual_sol_reserves)
        token_reserves_f64 == u64_as_f64(virtual_token_reserves)
        sol_amount_f64 == u64_as_f64(sol_amount)
        tokens_out == F64Div(F64Mul(token_reserves_f64, sol_amount_f64),
                             F64Add(sol_reserves_f64, sol_amount_f64))
        slippage_multiplier ==
            F64Sub(F64Literal(1, 1),
                   F64Div(u64_as_f64(slippage_bps), F64Literal(10000, 1)))
    IN [tokens_out |-> f64_as_u64(tokens_out),
        min_tokens_out |-> f64_as_u64(F64Mul(tokens_out, slippage_multiplier))]

\* u64::to_le_bytes and u64::from_le_bytes on numbers of any size below 2^64
RECURSIVE u64_to_le_bytes_n(_, _)
u64_to_le_bytes_n(x, n) ==
    IF n = 0 THEN <<>>
    ELSE LET Bytes(dm) == <<IF dm.r = <<>> THEN 0 ELSE dm.r[1]>>
                                  \o u64_to_le_bytes_n(dm.q, n - 1)
         IN Bytes(BigDivMod(x, BigOf(256)))
u64_to_le_bytes(x) == u64_to_le_bytes_n(x, 8)

RECURSIVE u64_from_le_bytes(_)
u64_from_le_bytes(bytes) ==
    IF bytes = <<>> THEN <<>>
    ELSE LET rest == u64_from_le_bytes(Tail(bytes)) IN
         BigAdd(BigMulSmall(rest, 256), BigOf(Head(bytes)))

\* monitor_account.rs line 209: amount_sol, the configured lamports in SOL
amount_sol(buy_amount_lamports) ==
    F64Div(u64_as_f64(buy_amount_lamports), F64Literal(LAMPORTS_PER_SOL, 1))

\* buy.rs line 168: (params.amount_sol * 1_000_000_000.0) as u64
amount_lamports(sol) ==
    f64_as_u64(F64Mul(sol, F64Literal(LAMPORTS_PER_SOL, 1)))

\* buy.rs lines 278-279: the budget with the 2% fee buffer (the sum stays
\* far below 2^64 for every amount a buyer can hold)
max_sol_cost_with_fees(lamports) ==
    LET fee_buffer ==
            f64_as_u64(F64Mul(u64_as_f64(lamports), F64Literal(2, 100)))
    IN BigAdd(lamports, fee_buffer)

\* build_buy_instruction, lines 119-125: the instruction data
build_buy_instruction(amount_tokens_out, max_sol_cost) ==
    BUY_DISCRIMINATOR \o u64_to_le_bytes(amount_tokens_out)
        \o u64_to_le_bytes(max_sol_cost) \o <<1, 0>>

\* the data of the buy instruction that build_buy_transaction makes for a
\* configured amount and slippage and the reserves of the curve
BuyPayload(buy_amount_lamports, slippage_bps, virtual_sol_reserves, virtual_token_reserves) ==
    LET Built(lamports, quote, max_sol_cost) ==
            [amount_lamports |-> lamports,
             estimated_tokens |-> quote.tokens_out,
             min_tokens_out |-> quote.min_tokens_out,
             max_sol_cost |-> max_sol_cost,
             data |-> build_buy_instruction(quote.min_tokens_out,
                                            max_sol_cost)]
        Quoted(lamports) ==
            Built(lamports,
                  calculate_tokens_with_slippage(
                      virtual_sol_reserves, virtual_token_reserves, lamports,
                      slippage_bps),
                  max_sol_cost_with_fees(lamports))
    IN Quoted(amount_lamports(amount_sol(buy_amount_lamports)))

\* bs58::encode(key).into_string() of the 32-byte account keys of the model:
\* key k (a small number standing for 32 bytes) has the address B58[k].
B58 == <<"Creator1", "MintA", "PoolA", "MintB", "PoolB", "MintC", "PoolC",
         "MintD", "PoolD", "Other">>
bs58_encode(key) == B58[key]

\* Pubkey::from_str succeeds on the base58 form of a 32-byte key: every
\* address of the model but the empty string
Pubkey_from_str_ok(s) == s # ""

\* What the RPC node can answer during one build: whether the buyer's token
\* account exists, the global config account (a lookup error, or its data),
\* and whether a blockhash is returned.
GlobalShort == Repeat(0, FEE_RECIPIENT_START + 8)
GlobalFull == Repeat(0, FEE_RECIPIENT_START) \o Repeat(5, 32) \o Repeat(0, 8)
RpcAnswers ==
    [ ata_exists : BOOLEAN,
      global : {<<"err">>, GlobalShort, GlobalFull},
      blockhash_ok : BOOLEAN,
      simulate_ok : BOOLEAN ]

\* lines 193-211: what rpc_client.get_account can return for the buyer's
\* token account (the account, "AccountNotFound", or the error of a request
\* that failed), and the arm of the match it takes: Ok(_) is "exists",
\* every Err(_) creates the account
GetAccountAnswers ==
    {"Ok(account)", "Err(AccountNotFound)", "Err(request failed)"}
get_account_is_ok(answer) == answer = "Ok(account)"

\* build_buy_transaction.  kind is "ok" (Ok(BuyTransaction), with the
\* instruction list of the transaction), "err" (an Err value returned by a
\* `?`) or "panic": data[fee_recipient_start..fee_recipient_end] is sliced
\* before try_into, so global config data shorter than 73 bytes panics
\* instead of reaching map_err("fee_recipient slice error").
build_buy_transaction(params, rpc) ==
    IF ~ /\ Pubkey_from_str_ok(params.mint)
         /\ Pubkey_from_str_ok(params.bonding_curve)
         /\ Pubkey_from_str_ok(params.associated_bonding_curve)
         /\ Pubkey_from_str_ok(params.creator)
    THEN [kind |-> "err", err |-> "ParsePubkeyError", instructions |-> <<>>]
    ELSE
      LET ata == IF rpc.ata_exists THEN <<>> ELSE <<"create_ata">> IN
      IF rpc.global = <<"err">>
      THEN [kind |-> "err", err |-> "ClientError", instructions |-> <<>>]
      ELSE IF Len(rpc.global) < FEE_RECIPIENT_END
      THEN [kind |-> "panic", err |-> "range end index out of range",
            instructions |-> <<>>]
      ELSE IF ~rpc.blockhash_ok
      THEN [kind |-> "err", err |-> "ClientError", instructions |-> <<>>]
      ELSE [kind |-> "ok", err |-> "", instructions |-> ata \o <<"buy">>]

(***************************************************************************)
(* The feeds.                                                              *)
(***************************************************************************)
MintKey(i) == 2 * i
PoolKey(i) == 2 * i + 1

\* a create instruction carrying name "A" and symbol "B"
CreateIx ==
    CREATE_DISCRIMINATOR \o to_le_bytes(1, 4) \o <<65>>
        \o to_le_bytes(1, 4) \o <<66>>
\* a second create instruction of the same transaction, name "L", symbol "M"
LaterCreateIx ==
    CREATE_DISCRIMINATOR \o to_le_bytes(1, 4) \o <<76>>
        \o to_le_bytes(1, 4) \o <<77>>
\* a create instruction cut off inside the name length field
ShortIx == CREATE_DISCRIMINATOR \o <<1, 0>>
\* an instruction of the program that is not a create
OtherIx == BUY_DISCRIMINATOR \o to_le_bytes(5, 8)

\* The transactions the feed can deliver: for every mint a create
\* transaction (creator, mint, pool at key indices 0, 1, 2) whose create
\* instruction is followed by a second one; one whose first create payload
\* is truncated and whose second is well formed; one with two account keys
\* only; one without create.
Transactions ==
    { [account_keys |-> <<1, MintKey(i), PoolKey(i)>>,
       instructions |-> <<OtherIx, CreateIx, LaterCreateIx>>] :
          i \in 1..NumMints }
    \cup { [account_keys |-> <<1, MintKey(1), PoolKey(1)>>,
            instructions |-> <<ShortIx, LaterCreateIx>>],
           [account_keys |-> <<1, MintKey(1)>>,
            instructions |-> <<CreateIx>>],
           [account_keys |-> <<1, MintKey(1), PoolKey(1)>>,
            instructions |-> <<OtherIx>>] }

\* The account data an update can carry: too short for the check of
\* from_account_data, 57 bytes (the fields and 8 bytes more), the full
\* 81-byte layout just below the threshold and at the threshold.
AccountDatas ==
    { Repeat(0, MIN_ACCOUNT_LEN - 1),
      EncodeCurve(1000, LAMPORTS_PER_SOL, 0, 0, 1000, FALSE, 8),
      EncodeCurve(1000, LAMPORTS_PER_SOL - 1, 0, 0, 1000, FALSE, 32),
      EncodeCurve(1000, LAMPORTS_PER_SOL, 0, 0, 1000, FALSE, 32) }

\* from_account_data on every account data of the feed
DecodedAccount == [ d \in AccountDatas |-> from_account_data(d) ]

\* the accounts an update can be about: every pool, and one foreign account
UpdateKeys == { PoolKey(i) : i \in 1..NumMints } \cup { Len(B58) }

(***************************************************************************)
(* State.                                                                  *)
(***************************************************************************)
VARIABLES
    current_batch,      \* Arc<Mutex<Vec<TokenInfo>>>: PendingBatch
    processed_tokens,   \* Arc<Mutex<HashSet<String>>>: SeenMints
    batch_lock,         \* holder of current_batch's mutex
    processed_lock,     \* holder of processed_tokens' mutex
    wpc,                \* where monitor_transactions is
    wtoken,             \* handle_create_instruction's locals
    spc,                \* where monitor_batches / monitor_batch is
    batch,              \* monitor_batches' drained batch
    token_map,          \* monitor_batch's HashMap<bonding_curve, TokenInfo>
    found_tokens,       \* monitor_batch's HashSet<mint>
    elapsed,            \* seconds since batch_start
    buy_tx,             \* the outcome of the cycle's latest build
    last_update,        \* what the update just handled led to
    panic_cause,        \* the function whose panic ended the scheduler task
    appended,           \* history: every TokenInfo pushed, in push order
    drained,            \* history: every TokenInfo drained, in drain order
    late,               \* history: pushed during the running watch cycle
    carry,              \* history: what the latest drain took of `late`
    build_count,        \* history: builds per mint in this watch cycle
    dropped,            \* history: mints of the create events that failed
    fn_args,            \* the function under study and its arguments
    fn_result           \* what it returned

vars ==
    << current_batch, processed_tokens, batch_lock, processed_lock, wpc,
       wtoken, spc, batch, token_map, found_tokens, elapsed, buy_tx,
       last_update, panic_cause, appended, drained, late, carry, build_count,
       dropped, fn_args, fn_result >>

watcher_vars == << wpc, wtoken >>
cycle_vars ==
    << batch, token_map, found_tokens, elapsed, buy_tx, last_update,
       build_count >>
history_vars == << appended, drained, late, carry, dropped >>
system_vars ==
    << current_batch, processed_tokens, batch_lock, processed_lock, wpc,
       wtoken, spc, batch, token_map, found_tokens, elapsed, buy_tx,
       last_update, panic_cause, appended, drained, late, carry, build_count,
       dropped >>
pure_vars == << fn_args, fn_result >>

NoToken == [mint |-> "", bonding_curve |-> "", name |-> <<>>,
            symbol |-> <<>>, creator |-> ""]
NoBuild == [kind |-> "none", err |-> "", instructions |-> <<>>]
NoUpdate == [outcome |-> "none", simulation |-> "none"]
Mints == { bs58_encode(MintKey(i)) : i \in 1..NumMints }

\* the scheduler is inside monitor_batch's polling loop (WATCHING)
Watching == spc \in {"loop", "recv"}

\* the state after main has created the shared state and started both tasks
SystemInit ==
    /\ current_batch = <<>>
    /\ processed_tokens = {}
    /\ batch_lock = "free"
    /\ processed_lock = "free"
    /\ wpc = "recv"
    /\ wtoken = NoToken
    /\ spc = "sleep"
    /\ batch = <<>>
    /\ token_map = <<>>
    /\ found_tokens = {}
    /\ elapsed = 0
    /\ buy_tx = NoBuild
    /\ last_update = NoUpdate
    /\ panic_cause = "none"
    /\ appended = <<>>
    /\ drained = <<>>
    /\ late = {}
    /\ carry = {}
    /\ build_count = [m \in Mints |-> 0]
    /\ dropped = {}

\* no function is studied on its own while the system runs
NoCall == [fn |-> "none"]

Init ==
    /\ SystemInit
    /\ fn_args = NoCall
    /\ fn_result = NoCall

(***************************************************************************)
(* monitor_transactions / handle_create_instruction                        *)
(***************************************************************************)
\* the first instruction whose data starts with the create opcode, 0 if none
\* (the for loop of lines 53-68 breaks after the first match)
RECURSIVE FirstCreateFrom(_, _)
FirstCreateFrom(instructions, i) ==
    IF i > Len(instructions) THEN 0
    ELSE IF StartsWith(instructions[i], CREATE_DISCRIMINATOR) THEN i
    ELSE FirstCreateFrom(instructions, i + 1)
\* the instruction that the watcher hands to handle_create_instruction
LastCreate(instructions) ==
    LET matches == { i \in 1..Len(instructions) :
                       StartsWith(instructions[i], CREATE_DISCRIMINATOR) }
    IN IF matches = {} THEN 0
       ELSE CHOOSE i \in matches : \A j \in matches : j <= i
FirstCreate(instructions) == FirstCreateFrom(instructions, 1)

\* lines 94-96 and 106: mint, bonding curve and creator are the keys at
\* indices 1, 2 and 0 (sequences of the model start at 1)
TokenInfoMintFromPool(account_keys, name, symbol) ==
    [mint |-> bs58_encode(account_keys[3]),
     bonding_curve |-> bs58_encode(account_keys[2]),
     name |-> name,
     symbol |-> symbol,
     creator |-> bs58_encode(account_keys[1])]
TokenInfo_new(account_keys, name, symbol) ==
    [mint |-> bs58_encode(account_keys[2]),
     bonding_curve |-> bs58_encode(account_keys[3]),
     name |-> name,
     symbol |-> symbol,
     creator |-> bs58_encode(account_keys[1])]

\* handle_create_instruction up to line 96: the decoded TokenInfo fields, or
\* the Err that the `?` of line 88 or the check of line 90 returns
DecodeCreate(data, account_keys) ==
    LET parsed == parse_create_instruction(data) IN
    IF ~parsed.ok THEN [ok |-> FALSE, err |-> parsed.err]
    ELSE IF Len(account_keys) < 3
    THEN [ok |-> FALSE, err |-> "Not enough account keys"]
    ELSE [ok |-> TRUE,
          token |-> TokenInfo_new(account_keys, parsed.name, parsed.symbol)]

\* lines 53-68 on every transaction of the feed: "none" when no instruction
\* matches, else what DecodeCreate makes of the first match
CreateOutcome ==
    [ tx \in Transactions |->
        LET i == FirstCreate(tx.instructions) IN
        IF i = 0 THEN [ok |-> FALSE, err |-> "none"]
        ELSE DecodeCreate(tx.instructions[i], tx.account_keys) ]

\* the mint that a create event names: the key at index 1, when there is one
EventMints(tx) ==
    IF Len(tx.account_keys) >= 2 THEN {bs58_encode(tx.account_keys[2])}
    ELSE {}

\* stream.next() yields Ok(update) holding a transaction; an Err of
\* handle_create_instruction is logged (lines 61-64): "failed_keys" for the
\* check of line 90, "failed_parse" for the `?` of line 88
WatcherTransaction ==
    /\ wpc = "recv"
    /\ \E tx \in Transactions :
         LET r == CreateOutcome[tx] IN
         IF r.ok
         THEN /\ wtoken' = r.token
              /\ wpc' = "lock_processed"
              /\ UNCHANGED dropped
         ELSE IF r.err = "none" THEN UNCHANGED << watcher_vars, dropped >>
         ELSE /\ wpc' = IF r.err = "Not enough account keys"
                        THEN "failed_keys" ELSE "failed_parse"
              /\ dropped' = dropped \cup EventMints(tx)
              /\ UNCHANGED wtoken
    /\ UNCHANGED << current_batch, processed_tokens, batch_lock,
                    processed_lock, spc, cycle_vars, panic_cause,
                    appended, drained, late, carry >>
    /\ UNCHANGED pure_vars

\* line 75: what the Err arm of the match does with a stream error: it logs
\* it (it does not return it to the caller as `?` would)
PropagateStreamError == "returned_err"
LogStreamError == "stream_error"

\* stream.next() yields Some(Err(e)): logged (line 75), the loop goes on
WatcherStreamError ==
    /\ wpc = "recv"
    /\ wpc' = LogStreamError
    /\ UNCHANGED << current_batch, processed_tokens, batch_lock,
                    processed_lock, wtoken, spc, cycle_vars, panic_cause,
                    history_vars >>
    /\ UNCHANGED pure_vars

\* stream.next() yields None: the loop ends, monitor_transactions returns Ok
WatcherStreamEnd ==
    /\ wpc = "recv"
    /\ wpc' = "returned"
    /\ UNCHANGED << current_batch, processed_tokens, batch_lock,
                    processed_lock, wtoken, spc, cycle_vars, panic_cause,
                    history_vars >>
    /\ UNCHANGED pure_vars

\* line 99: processed_tokens.lock()
WatcherLockProcessed ==
    /\ wpc = "lock_processed"
    /\ processed_lock = "free"
    /\ processed_lock' = "watcher"
    /\ wpc' = "check"
    /\ UNCHANGED << current_batch, processed_tokens, batch_lock, wtoken, spc,
                    cycle_vars, panic_cause, history_vars >>
    /\ UNCHANGED pure_vars

\* line 100: processed.contains(&mint)
AlreadyProcessedNever(processed, mint) == FALSE
AlreadyProcessed(processed, mint) == mint \in processed

\* line 103: processed.insert(mint.clone())
InsertNothing(processed, mint) == processed
InsertMint(processed, mint) == processed \cup {mint}

\* line 104: drop(processed), before the batch is locked at line 109
ProcessedGuardKept == "watcher"
ProcessedGuardAfterInsert == "free"

\* lines 100-104, under the guard taken at line 99: a known mint returns
\* Ok(()) (the guard drops with the return), a new one is inserted and the
\* guard is dropped explicitly
WatcherCheckInsert ==
    /\ wpc = "check"
    /\ IF AlreadyProcessed(processed_tokens, wtoken.mint)
       THEN /\ wpc' = "ignored"
            /\ processed_lock' = "free"
            /\ UNCHANGED processed_tokens
       ELSE /\ processed_tokens' = InsertMint(processed_tokens, wtoken.mint)
            /\ processed_lock' = ProcessedGuardAfterInsert
            /\ wpc' = "lock_batch"
    /\ UNCHANGED << current_batch, batch_lock, wtoken, spc, cycle_vars,
                    panic_cause, history_vars >>
    /\ UNCHANGED pure_vars

\* the item is done without a push: handle_create_instruction returned
\* Ok(()) of line 101 for a known mint, or an Err that lines 61-64 log, and
\* the for loop breaks (line 66); or the item was a stream error (line 75).
\* The watcher goes back to stream.next()
WatcherReturn ==
    /\ wpc \in {"ignored", "failed_keys", "failed_parse", "stream_error"}
    /\ wpc' = "recv"
    /\ wtoken' = NoToken
    /\ UNCHANGED << current_batch, processed_tokens, batch_lock,
                    processed_lock, spc, cycle_vars, panic_cause,
                    history_vars >>
    /\ UNCHANGED pure_vars

\* line 109: current_batch.lock()
WatcherLockBatch ==
    /\ wpc = "lock_batch"
    /\ batch_lock = "free"
    /\ batch_lock' = "watcher"
    /\ wpc' = "push"
    /\ UNCHANGED << current_batch, processed_tokens, processed_lock, wtoken,
                    spc, cycle_vars, panic_cause, history_vars >>
    /\ UNCHANGED pure_vars

\* lines 110-113: batch.push(token_info); the guard drops with the return
WatcherPush ==
    /\ wpc = "push"
    /\ current_batch' = Append(current_batch, wtoken)
    /\ batch_lock' = "free"
    /\ wpc' = "recv"
    /\ wtoken' = NoToken
    /\ appended' = Append(appended, wtoken)
    /\ late' = IF Watching THEN late \cup {wtoken} ELSE late
    /\ UNCHANGED << processed_tokens, processed_lock, spc, cycle_vars,
                    panic_cause, drained, carry, dropped >>
    /\ UNCHANGED pure_vars

(***************************************************************************)
(* monitor_batches                                                         *)
(***************************************************************************)
\* line 29: sleep(collection_window_secs) completes
SchedulerWake ==
    /\ spc = "sleep"
    /\ spc' = "lock_batch"
    /\ UNCHANGED << current_batch, processed_tokens, batch_lock,
                    processed_lock, watcher_vars, cycle_vars, panic_cause,
                    history_vars >>
    /\ UNCHANGED pure_vars

\* line 32: current_batch.lock()
SchedulerLockBatch ==
    /\ spc = "lock_batch"
    /\ batch_lock = "free"
    /\ batch_lock' = "scheduler"
    /\ spc' = "drain"
    /\ UNCHANGED << current_batch, processed_tokens, processed_lock,
                    watcher_vars, cycle_vars, panic_cause, history_vars >>
    /\ UNCHANGED pure_vars

\* line 33: current.drain(..).collect(): what the local batch receives and
\* what stays in the shared vector
DrainKeepsCopy(current) == [taken |-> current, left |-> current]
DrainAll(current) == [taken |-> current, left |-> <<>>]

\* line 34: the guard `current` lives in the block of lines 31-34 and is
\* dropped at its end, before the batch is looked at
BatchGuardKept == "scheduler"
BatchGuardAfterDrain == "free"

\* line 33: the drain, under the guard taken at line 32
SchedulerDrain ==
    /\ spc = "drain"
    /\ LET d == DrainAll(current_batch) IN
         /\ batch' = d.taken
         /\ current_batch' = d.left
         /\ drained' = drained \o d.taken
    /\ spc' = "drop_guard"
    /\ carry' = late
    /\ late' = {}
    /\ UNCHANGED << processed_tokens, batch_lock, processed_lock,
                    watcher_vars, token_map, found_tokens, elapsed, buy_tx,
                    last_update, build_count, panic_cause, appended,
                    dropped >>
    /\ UNCHANGED pure_vars

\* line 34: the block ends and the guard is dropped
SchedulerDropGuard ==
    /\ spc = "drop_guard"
    /\ batch_lock' = BatchGuardAfterDrain
    /\ spc' = "drained"
    /\ UNCHANGED << current_batch, processed_tokens, processed_lock,
                    watcher_vars, cycle_vars, panic_cause, history_vars >>
    /\ UNCHANGED pure_vars

\* line 36: batch.is_empty()
NeverEmpty(b) == FALSE
is_empty(b) == b = <<>>

\* lines 36-42: an empty batch goes back to the sleep
SchedulerEmptyBatch ==
    /\ spc = "drained"
    /\ is_empty(batch)
    /\ spc' = "sleep"
    /\ carry' = {}
    /\ UNCHANGED << current_batch, processed_tokens, batch_lock,
                    processed_lock, watcher_vars, cycle_vars, panic_cause,
                    appended, drained, late, dropped >>
    /\ UNCHANGED pure_vars

(***************************************************************************)
(* monitor_batch                                                           *)
(***************************************************************************)
\* lines 65-68: batch.iter().map(|t| (bonding_curve, t)).collect() into a
\* HashMap: of two tokens with one bonding curve the later one stays
TokenMap(b) ==
    [ p \in { b[i].bonding_curve : i \in 1..Len(b) } |->
        LET last == CHOOSE i \in 1..Len(b) :
                        /\ b[i].bonding_curve = p
                        /\ \A j \in 1..Len(b) :
                               b[j].bonding_curve = p => j <= i
        IN b[last] ]

\* lines 54, 65-106: monitor_batch is entered with a non-empty batch; the
\* subscription is opened, batch_start taken, found_tokens created empty
SchedulerStartWatch ==
    /\ spc = "drained"
    /\ ~is_empty(batch)
    /\ token_map' = TokenMap(batch)
    /\ found_tokens' = {}
    /\ elapsed' = 0
    /\ buy_tx' = NoBuild
    /\ last_update' = NoUpdate
    /\ build_count' = [m \in Mints |-> 0]
    /\ spc' = "loop"
    /\ UNCHANGED << current_batch, processed_tokens, batch_lock,
                    processed_lock, watcher_vars, batch, panic_cause,
                    history_vars >>
    /\ UNCHANGED pure_vars

\* lines 54-57: what the end of a watch cycle does to the shared vector:
\* nothing, monitor_batch owns its batch and never touches current_batch
PendingClearedAfterCycle(current) == <<>>
PendingAfterCycle(current) == current

\* lines 28-29 and 54-57: where monitor_batches goes when monitor_batch has
\* returned: round its loop, to the sleep of line 29
DrainAtOnce == "lock_batch"
AfterWatch == "sleep"

\* monitor_batch returns Ok(()) and its locals are dropped; monitor_batches
\* goes round its loop to the next sleep
EndCycle ==
    /\ spc' = AfterWatch
    /\ current_batch' = PendingAfterCycle(current_batch)
    /\ batch' = <<>>
    /\ token_map' = <<>>
    /\ found_tokens' = {}
    /\ elapsed' = 0
    /\ buy_tx' = NoBuild
    /\ last_update' = NoUpdate
    /\ build_count' = [m \in Mints |-> 0]
    /\ carry' = {}
    /\ UNCHANGED << processed_tokens, batch_lock, processed_lock,
                    watcher_vars, panic_cause, appended, drained, late,
                    dropped >>

\* line 111: elapsed >= config.monitoring_window_secs
WindowElapsed(e, window) == e >= window

\* lines 109-118: the top of the polling loop
WatchLoopTop ==
    /\ spc = "loop"
    /\ IF WindowElapsed(elapsed, Config.monitoring_window_secs)
       THEN EndCycle
       ELSE /\ spc' = "recv"
            /\ last_update' = NoUpdate
            /\ UNCHANGED << current_batch, processed_tokens, batch_lock,
                            processed_lock, watcher_vars, batch, token_map,
                            found_tokens, elapsed, buy_tx, build_count,
                            panic_cause, history_vars >>
    /\ UNCHANGED pure_vars

\* the clock after a receive that took dt seconds (the model stops counting
\* at the end of the window)
Clock(e, dt) == Min(e + dt, Config.monitoring_window_secs)

\* line 142: Err(_) of the timeout: one second passed without an item
WatchTimeout ==
    /\ spc = "recv"
    /\ elapsed' = Clock(elapsed, 1)
    /\ spc' = "loop"
    /\ UNCHANGED << current_batch, processed_tokens, batch_lock,
                    processed_lock, watcher_vars, batch, token_map,
                    found_tokens, buy_tx, last_update, build_count,
                    panic_cause, history_vars >>
    /\ UNCHANGED pure_vars

\* line 135: Ok(Some(Err(e))): logged
WatchStreamError ==
    /\ spc = "recv"
    /\ \E dt \in {0, 1} : elapsed' = Clock(elapsed, dt)
    /\ spc' = "loop"
    /\ UNCHANGED << current_batch, processed_tokens, batch_lock,
                    processed_lock, watcher_vars, batch, token_map,
                    found_tokens, buy_tx, last_update, build_count,
                    panic_cause, history_vars >>
    /\ UNCHANGED pure_vars

\* line 138: Ok(None): the account stream ended, break
WatchStreamEnd ==
    /\ spc = "recv"
    /\ EndCycle
    /\ UNCHANGED pure_vars

(***************************************************************************)
(* handle_account_update                                                   *)
(***************************************************************************)
\* get_associated_token_address(owner, mint).to_string(): a derived address
get_associated_token_address(owner, mint) == "Ata:" \o owner \o ":" \o mint

\* lines 205-212: the BuyParams of a token (creator is the token's creator)
BuyParams(token) ==
    [mint |-> token.mint,
     bonding_curve |-> token.bonding_curve,
     associated_bonding_curve |->
         get_associated_token_address(token.bonding_curve, token.mint),
     creator |-> token.creator]

\* line 249: found_tokens.insert(token.mint.clone()), reached after the
\* match on the build result whatever the result was
FoundAfterBuildOkOnly(found, mint, build) ==
    IF build.kind = "ok" THEN found \cup {mint} ELSE found
FoundAfterBuild(found, mint, build) == found \cup {mint}

\* handle_account_update on an account update for `key` carrying `data`,
\* the RPC node answering `rpc` if a build is started.  kind is "ok" (Ok(())),
\* "err" (an Err, logged by monitor_batch at line 132) or "panic".
HandleAccountUpdate(key, data, rpc) ==
    LET account_pubkey == bs58_encode(key)
        same == [kind |-> "ok", cause |-> "none", found |-> found_tokens,
                 build |-> buy_tx, built |-> "", outcome |-> "outside",
                 simulation |-> "none"]
    IN
    IF account_pubkey \notin DOMAIN token_map THEN same
    ELSE
      LET token == token_map[account_pubkey] IN
      IF token.mint \in found_tokens
      THEN [same EXCEPT !.outcome = "already_found"]
      ELSE
        LET curve == DecodedAccount[data] IN
        IF curve.kind = "err"
        THEN [same EXCEPT !.kind = "err", !.outcome = "decode_error"]
        ELSE IF curve.kind = "panic"
        THEN [same EXCEPT !.kind = "panic", !.cause = "from_account_data",
                          !.outcome = "panic"]
        ELSE IF ~IsEligible(curve)
        THEN [same EXCEPT !.outcome = "ineligible"]
        ELSE
          LET build == build_buy_transaction(BuyParams(token), rpc) IN
          IF build.kind = "panic"
          THEN [same EXCEPT !.kind = "panic",
                            !.cause = "build_buy_transaction",
                            !.built = token.mint, !.outcome = "panic"]
          ELSE [kind |-> "ok", cause |-> "none",
                found |-> FoundAfterBuild(found_tokens, token.mint, build),
                build |-> build,
                built |-> token.mint,
                outcome |-> "built",
                simulation |-> IF build.kind # "ok" THEN "none"
                               ELSE IF rpc.simulate_ok THEN "ok"
                               ELSE "warning"]

\* the RPC answers that matter to an update: all of them when the update
\* starts a build, one (unused) otherwise
NoRpc ==
    [ata_exists |-> TRUE, global |-> <<"err">>, blockhash_ok |-> TRUE,
     simulate_ok |-> TRUE]
RpcAnswersFor(key, data) ==
    IF HandleAccountUpdate(key, data, NoRpc).built = "" THEN {NoRpc}
    ELSE RpcAnswers

\* lines 123-134: Ok(Some(Ok(update))) with an account update; an Err of
\* handle_account_update is logged and the loop goes on
WatchUpdate ==
    /\ spc = "recv"
    /\ \E key \in UpdateKeys, data \in AccountDatas, dt \in {0, 1} :
       \E rpc \in RpcAnswersFor(key, data) :
         LET r == HandleAccountUpdate(key, data, rpc) IN
         /\ build_count' =
                IF r.built = "" THEN build_count
                ELSE [build_count EXCEPT ![r.built] = @ + 1]
         /\ last_update' =
                [outcome |-> r.outcome, simulation |-> r.simulation]
         /\ IF r.kind = "panic"
            THEN /\ spc' = "panicked"
                 /\ panic_cause' = r.cause
                 /\ UNCHANGED << found_tokens, buy_tx, elapsed >>
            ELSE /\ spc' = "loop"
                 /\ found_tokens' = r.found
                 /\ buy_tx' = r.build
                 /\ elapsed' = Clock(elapsed, dt)
                 /\ UNCHANGED panic_cause
    /\ UNCHANGED << current_batch, processed_tokens, batch_lock,
                    processed_lock, watcher_vars, batch, token_map,
                    history_vars >>
    /\ UNCHANGED pure_vars

\* lines 159-163: an update that is no account update, or has no account
WatchOtherUpdate ==
    /\ spc = "recv"
    /\ \E dt \in {0, 1} : elapsed' = Clock(elapsed, dt)
    /\ spc' = "loop"
    /\ UNCHANGED << current_batch, processed_tokens, batch_lock,
                    processed_lock, watcher_vars, batch, token_map,
                    found_tokens, buy_tx, last_update, build_count,
                    panic_cause, history_vars >>
    /\ UNCHANGED pure_vars

(***************************************************************************)
(* The system.                                                             *)
(***************************************************************************)
Next ==
    \/ WatcherTransaction
    \/ WatcherStreamError
    \/ WatcherStreamEnd
    \/ WatcherLockProcessed
    \/ WatcherCheckInsert
    \/ WatcherReturn
    \/ WatcherLockBatch
    \/ WatcherPush
    \/ SchedulerWake
    \/ SchedulerLockBatch
    \/ SchedulerDrain
    \/ SchedulerDropGuard
    \/ SchedulerEmptyBatch
    \/ SchedulerStartWatch
    \/ WatchLoopTop
    \/ WatchTimeout
    \/ WatchStreamError
    \/ WatchStreamEnd
    \/ WatchUpdate
    \/ WatchOtherUpdate

Spec == Init /\ [][Next]_vars

\* The scheduling the runtime gives the two tasks (main.rs lines 36-45: the
\* scheduler is spawned, the watcher awaited): a task that can take a step
\* takes it; a thread blocked in Mutex::lock gets the lock, since every
\* holder releases it without awaiting and then awaits (the sleep of line
\* 29, a stream item) before it asks again; the sleep of line 29 ends; time
\* passes in the timeout of line 122, so a watch cycle that keeps receiving
\* also sees its clock advance.  Nothing is assumed of what the two streams
\* deliver.
FairSpec ==
    /\ Spec
    /\ WF_vars(WatcherCheckInsert)
    /\ WF_vars(WatcherReturn)
    /\ WF_vars(WatcherPush)
    /\ SF_vars(WatcherLockProcessed)
    /\ SF_vars(WatcherLockBatch)
    /\ WF_vars(SchedulerWake)
    /\ SF_vars(SchedulerLockBatch)
    /\ WF_vars(SchedulerDrain)
    /\ WF_vars(SchedulerDropGuard)
    /\ WF_vars(SchedulerEmptyBatch)
    /\ WF_vars(SchedulerStartWatch)
    /\ WF_vars(WatchLoopTop)
    /\ SF_vars(WatchTimeout)

\* The part of that scheduling the locks rest on: a task inside a critical
\* section leaves it (lines 100-104 and 110-112 of the watcher, lines 33-34
\* of the scheduler), and a task blocked in Mutex::lock gets the lock.
\* processed_tokens is only ever locked by the watcher, so once free it
\* stays free until the watcher takes it.
LockFairSpec ==
    /\ Spec
    /\ WF_vars(WatcherLockProcessed)
    /\ WF_vars(WatcherCheckInsert)
    /\ SF_vars(WatcherLockBatch)
    /\ WF_vars(WatcherPush)
    /\ SF_vars(SchedulerLockBatch)
    /\ WF_vars(SchedulerDrain)
    /\ WF_vars(SchedulerDropGuard)

(***************************************************************************)
(* The decoders and the arithmetic on their own: every behaviour starts    *)
(* with one function and its arguments and has one step, the call.         *)
(***************************************************************************)
Pending == [fn |-> "pending"]

\* the strings of at most n characters over the characters cs
RECURSIVE StringsUpTo(_, _)
StringsUpTo(cs, n) ==
    IF n = 0 THEN {<<>>}
    ELSE LET shorter == StringsUpTo(cs, n - 1) IN
         shorter \cup { <<c>> \o t : c \in cs, t \in shorter }

\* 'A', and the two-byte characters U+00E9 and U+07FF
Chars == {65, 233, 2047}
\* what can follow the symbol: nothing, one byte, a further length-prefixed
\* string
TrailingBytes == { <<>>, <<0>>, to_le_bytes(1, 4) \o <<67>> }

ParseArgs ==
    { [fn |-> "parse_create_instruction", name |-> n, symbol |-> y,
       extra |-> x, data |-> EncodeCreate(n, y) \o x] :
          n \in StringsUpTo(Chars, MaxStrLen),
          y \in StringsUpTo(Chars, MaxStrLen),
          x \in TrailingBytes }

\* buffers of any shape: every prefix of three well-formed payloads (one
\* with a byte after the symbol), length fields that declare more than is
\* left (by one byte, by 2^30), a payload under another opcode and one whose
\* name is not UTF-8
Payloads ==
    { EncodeCreate(<<65>>, <<66, 67>>) \o <<0>>,
      EncodeCreate(<<>>, <<>>),
      EncodeCreate(<<233>>, <<65>>) }
Buffers ==
    { SubSeq(d, 1, k) : d \in Payloads, k \in 0..11 }
    \cup UNION { { SubSeq(d, 1, k) : k \in 12..Len(d) } : d \in Payloads }
    \cup { CREATE_DISCRIMINATOR \o to_le_bytes(3, 4) \o <<65, 66>>,
           CREATE_DISCRIMINATOR \o <<0, 0, 0, 64>> \o <<65>>,
           CREATE_DISCRIMINATOR \o to_le_bytes(1, 4) \o <<65>>
               \o to_le_bytes(5, 4) \o <<1, 2, 3, 4>>,
           CREATE_DISCRIMINATOR \o to_le_bytes(1, 4) \o <<65>>
               \o <<0, 0, 0, 64>> \o <<1>>,
           BUY_DISCRIMINATOR \o to_le_bytes(1, 4) \o <<65>>
               \o to_le_bytes(1, 4) \o <<66>>,
           CREATE_DISCRIMINATOR \o to_le_bytes(1, 4) \o <<255>>
               \o to_le_bytes(0, 4) }
BufferArgs == { [fn |-> "parse_create_instruction(buffer)", data |-> b] :
                  b \in Buffers }

\* bonding curve accounts: every field with a value whose bytes differ, the
\* creator absent (49 bytes), absent with 8 further bytes (57 bytes, the
\* minimum from_account_data accepts) or present (81 bytes)
CreatorLens == {0, MIN_ACCOUNT_LEN - 49, 32}
DecodeArgs ==
    { [fn |-> "from_account_data",
       virtual_token_reserves |-> vtr, virtual_sol_reserves |-> vsr,
       real_token_reserves |-> 67305985, real_sol_reserves |-> 3,
       token_total_supply |-> 134678021, complete |-> c, creator_len |-> n,
       data |-> EncodeCurve(vtr, vsr, 67305985, 3, 134678021, c, n)] :
          vtr \in {1, 16909060}, vsr \in {0, LAMPORTS_PER_SOL},
          c \in BOOLEAN, n \in CreatorLens }

\* configurations (minimum market cap in USD, SOL price in USD) with the
\* threshold they put on virtual_sol_reserves, in lamports
Thresholds ==
    { [min_market_cap_usd |-> 1, sol_usd_price |-> 1,
       lamports |-> LAMPORTS_PER_SOL],
      [min_market_cap_usd |-> 2, sol_usd_price |-> 1,
       lamports |-> 2 * LAMPORTS_PER_SOL],
      [min_market_cap_usd |-> 1, sol_usd_price |-> 2,
       lamports |-> LAMPORTS_PER_SOL \div 2],
      [min_market_cap_usd |-> 2, sol_usd_price |-> 2,
       lamports |-> LAMPORTS_PER_SOL] }
\* reserves at the threshold, next to it on both sides, and far from it
EligibleArgs ==
    { [fn |-> "eligible", virtual_sol_reserves |-> t.lamports + d,
       min_market_cap_usd |-> t.min_market_cap_usd,
       sol_usd_price |-> t.sol_usd_price, threshold |-> t.lamports] :
          t \in Thresholds, d \in {-1000, -1, 0, 1, 1000} }

\* the quote of section 4.7's example: reserves 1_000_000_000_000 tokens and
\* 30_000_000_000 lamports, 100_000_000 lamports in, 500 bps
QuoteExample ==
    [fn |-> "calculate_tokens_with_slippage",
     virtual_sol_reserves |-> Big(<<300, 0, 0>>),
     virtual_token_reserves |-> Big(<<1, 0, 0, 0>>),
     sol_amount |-> Big(<<1, 0, 0>>),
     slippage_bps |-> BigOf(500)]
\* small reserves and amounts (zero included) whose quotient is whole or
\* fractional, under slippages from 0 to 10000 bps, and the example
QuoteArgs ==
    { [fn |-> "calculate_tokens_with_slippage",
       virtual_sol_reserves |-> BigOf(vsr),
       virtual_token_reserves |-> BigOf(vtr),
       sol_amount |-> BigOf(amt),
       slippage_bps |-> BigOf(bps)] :
          vsr \in {0, 1, 9}, vtr \in {0, 10, 19}, amt \in {0, 1, 3},
          bps \in {0, 1, 500, 4000, 8000, 9999, 10000} }
        \cup {QuoteExample}

\* configured amounts from 0 lamports to 2^52, the default 0.1 SOL among
\* them, with the reserves of a fresh curve and of a nearly empty one
PayloadArgs ==
    { [fn |-> "build_buy_transaction",
       buy_amount_lamports |-> amt,
       slippage_bps |-> BigOf(bps),
       virtual_sol_reserves |-> r[1],
       virtual_token_reserves |-> r[2]] :
          amt \in {BigOf(0), BigOf(1), BigOf(15), BigOf(49), BigOf(50),
                   BigOf(100), Big(<<1, 0, 0>>), BigPow2(52)},
          bps \in {0, 500, 10000},
          r \in { <<Big(<<300, 0, 0>>), Big(<<1, 0, 0, 0>>)>>,
                  <<BigOf(1), BigSub(BigPow2(63), BigOf(1))>> } }

\* builds for a token of the feed and for one whose mint is no address,
\* under every answer of the RPC node
BuildArgs ==
    { [fn |-> "build_buy_transaction(rpc)",
       token |-> t, get_account |-> a, global |-> g, blockhash_ok |-> b] :
          t \in { TokenInfo_new(<<1, MintKey(1), PoolKey(1)>>, <<65>>, <<66>>),
                  NoToken },
          a \in GetAccountAnswers,
          g \in {<<"err">>, GlobalShort, GlobalFull},
          b \in BOOLEAN }

PureInit ==
    /\ SystemInit
    /\ \/ fn_args \in ParseArgs
       \/ fn_args \in DecodeArgs
       \/ fn_args \in EligibleArgs
       \/ fn_args \in QuoteArgs
       \/ fn_args \in PayloadArgs
       \/ fn_args \in BufferArgs
       \/ fn_args \in BuildArgs
    /\ fn_result = Pending

CallParse ==
    /\ fn_args.fn = "parse_create_instruction"
    /\ fn_result = Pending
    /\ fn_result' = parse_create_instruction(fn_args.data)
    /\ UNCHANGED << system_vars, fn_args >>

CallParseBuffer ==
    /\ fn_args.fn = "parse_create_instruction(buffer)"
    /\ fn_result = Pending
    /\ fn_result' = parse_create_instruction(fn_args.data)
    /\ UNCHANGED << system_vars, fn_args >>

CallDecode ==
    /\ fn_args.fn = "from_account_data"
    /\ fn_result = Pending
    /\ fn_result' = from_account_data(fn_args.data)
    /\ UNCHANGED << system_vars, fn_args >>

CallEligible ==
    /\ fn_args.fn = "eligible"
    /\ fn_result = Pending
    /\ fn_result' =
           [eligible |->
                Eligible(fn_args.virtual_sol_reserves,
                         [min_market_cap_usd |-> fn_args.min_market_cap_usd],
                         fn_args.sol_usd_price)]
    /\ UNCHANGED << system_vars, fn_args >>

CallQuote ==
    /\ fn_args.fn = "calculate_tokens_with_slippage"
    /\ fn_result = Pending
    /\ fn_result' =
           calculate_tokens_with_slippage(
               fn_args.virtual_sol_reserves, fn_args.virtual_token_reserves,
               fn_args.sol_amount, fn_args.slippage_bps)
    /\ UNCHANGED << system_vars, fn_args >>

CallPayload ==
    /\ fn_args.fn = "build_buy_transaction"
    /\ fn_result = Pending
    /\ fn_result' =
           BuyPayload(fn_args.buy_amount_lamports, fn_args.slippage_bps,
                      fn_args.virtual_sol_reserves,
                      fn_args.virtual_token_reserves)
    /\ UNCHANGED << system_vars, fn_args >>

CallBuild ==
    /\ fn_args.fn = "build_buy_transaction(rpc)"
    /\ fn_result = Pending
    /\ fn_result' =
           build_buy_transaction(
               BuyParams(fn_args.token),
               [ata_exists |-> get_account_is_ok(fn_args.get_account),
                global |-> fn_args.global,
                blockhash_ok |-> fn_args.blockhash_ok,
                simulate_ok |-> TRUE])
    /\ UNCHANGED << system_vars, fn_args >>

PureNext ==
    \/ CallParse
    \/ CallDecode
    \/ CallEligible
    \/ CallQuote
    \/ CallPayload
    \/ CallParseBuffer
    \/ CallBuild

PureSpec == PureInit /\ [][PureNext]_vars

(***************************************************************************)
(* Properties.                                                             *)
(***************************************************************************)
MintsOf(tokens) == { tokens[i].mint : i \in 1..Len(tokens) }
Occurrences(tokens, m) ==
    Cardinality({ i \in 1..Len(tokens) : tokens[i].mint = m })

\* C1: over any sequence of delivered create events, replays included, a
\* mint is pushed to current_batch at most once for the life of the process.
C1_MintAppendedAtMostOnce ==
    \A m \in MintsOf(appended) : Occurrences(appended, m) = 1

\* C1 witness: a create event was replayed for a mint that had been pushed
\* and drained before; the replay was ignored and nothing was pushed for it.
C1_ReplayIgnoredAfterDrain ==
    /\ wpc = "ignored"
    /\ wtoken.mint \in MintsOf(drained)
    /\ Occurrences(appended, wtoken.mint) = 1

\* C2 as stated (refuted): a token pushed during a watch cycle is drained at
\* the start of the next COLLECTING phase, so once the scheduler is in its
\* collection sleep no such token is still waiting in current_batch.
C2_DrainedAtStartOfCollecting ==
    spc = "sleep" => late = {}

\* C2 amended: a token pushed while a watch cycle runs is never dropped (it
\* stays in current_batch until the next drain), is not part of the running
\* cycle's batch, and is in the batch taken by the next drain, which follows
\* the next collection sleep.
C2_LateTokenInNextBatch ==
    /\ late \subseteq Range(current_batch)
    /\ Watching => late \cap Range(batch) = {}
    /\ spc \in {"drop_guard", "drained", "loop", "recv"}
           => carry \subseteq Range(batch)

\* C2 witness: a watch cycle runs on a batch holding a token that was pushed
\* during the previous watch cycle.
C2_LateTokenWatched ==
    /\ Watching
    /\ carry # {}
    /\ carry \subseteq Range(batch)

\* some batch holds mint m: current_batch or an already drained batch
InSomeBatch(m) == m \in MintsOf(current_batch) \cup MintsOf(drained)

\* C3 as stated (refuted): check, insert and push are one critical section,
\* so whenever the watcher holds no lock every mint of processed_tokens has
\* its TokenInfo in current_batch or in a drained batch.
C3_SingleCriticalSection ==
    (batch_lock # "watcher" /\ processed_lock # "watcher")
        => \A m \in processed_tokens : InSomeBatch(m)

\* C3 amended: the membership check and the insert are one critical section
\* under the processed_tokens lock and the push is a second one under the
\* current_batch lock; between the two the mint is in processed_tokens
\* while its TokenInfo is still a local of the watcher, and that is the only
\* mint of processed_tokens that is in no batch.
C3_TwoCriticalSections ==
    /\ wpc = "check" => processed_lock = "watcher"
    /\ wpc = "push" => batch_lock = "watcher"
    /\ \A m \in processed_tokens :
           \/ InSomeBatch(m)
           \/ wpc \in {"lock_batch", "push"} /\ wtoken.mint = m
    /\ MintsOf(appended) \subseteq processed_tokens

\* C3 witness: the scheduler holds the current_batch lock for its drain
\* while the watcher is between its two critical sections.
C3_DrainBetweenInsertAndPush ==
    /\ spc = "drop_guard"
    /\ wpc = "lock_batch"
    /\ wtoken.mint \in processed_tokens
    /\ ~InSomeBatch(wtoken.mint)

\* C4: within one watch cycle build_buy_transaction is called at most once
\* per mint, whatever the build and the simulation returned.
C4_OneBuildPerMintPerCycle ==
    \A m \in Mints : build_count[m] <= 1

\* C4 witness: the build of a mint failed, and a later update for its pool
\* in the same cycle was skipped because the mint is in found_tokens.
C4_FailedBuildNotRetried ==
    /\ Watching
    /\ buy_tx.kind = "err"
    /\ last_update.outcome = "already_found"
    /\ \E m \in found_tokens : build_count[m] = 1

\* C5 as stated (refuted by the code): a malformed account update of any
\* length is abandoned with an error and never ends the scheduler task.
C5_DecodeFailureIsolated ==
    spc = "panicked" => panic_cause # "from_account_data"

\* C6: the drain empties current_batch and hands the local batch exactly its
\* content in push order, and every TokenInfo ever pushed is in exactly one
\* place: the drained batches followed by current_batch are the pushes.
C6_DrainAtomic ==
    /\ appended = drained \o current_batch
    /\ spc = "drop_guard" =>
           /\ current_batch = <<>>
           /\ Len(drained) >= Len(batch)
           /\ batch = SubSeq(drained, Len(drained) - Len(batch) + 1,
                             Len(drained))
    /\ spc \in {"drain", "drop_guard"} => wpc # "push"

\* C6 witness: a drain took a non-empty batch while the watcher was waiting
\* for the current_batch lock with a further token.
C6_DrainWhileWatcherWaits ==
    /\ spc = "drop_guard"
    /\ batch # <<>>
    /\ wpc = "lock_batch"

\* C7 as stated (refuted): whenever the scheduler sleeps or a task waits on
\* a stream receive, both locks are free.
C7_BothLocksFreeAtSuspension ==
    (spc \in {"sleep", "recv"} \/ wpc = "recv")
        => (batch_lock = "free" /\ processed_lock = "free")

\* C7 amended: a task that sleeps or waits on a stream receive holds
\* neither lock itself (the other task may hold one meanwhile).
C7_SuspendedTaskHoldsNoLock ==
    /\ spc \in {"sleep", "recv"} =>
           (batch_lock # "scheduler" /\ processed_lock # "scheduler")
    /\ wpc = "recv" =>
           (batch_lock # "watcher" /\ processed_lock # "watcher")

\* C7 witness: the scheduler waits on the account stream while the watcher
\* is inside its current_batch critical section.
C7_WatcherLocksWhileSchedulerWaits ==
    /\ spc = "recv"
    /\ batch_lock = "watcher"

\* C8 as stated (refuted by the code): a started watch cycle only ever ends
\* by returning to the scheduler, which goes to its next collection sleep.
C8_WatchCycleReturns ==
    [][Watching => (Watching' \/ spc' = "sleep")]_vars

\* C9 as stated (refuted by the code): no failure of a watch cycle stops the
\* scheduler task.
C9_SchedulerNeverStopped ==
    spc # "panicked"

\* C10 as stated (refuted by the code): a failing build step is an error
\* value, never the end of the watch cycle.
C10_BuildFailureReported ==
    spc = "panicked" => panic_cause # "build_buy_transaction"

\* C11: a create payload built from a name and a symbol of valid UTF-8, with
\* or without bytes after the symbol, decodes to exactly that name and symbol.
C11_ParseRoundTrip ==
    (fn_args.fn = "parse_create_instruction" /\ fn_result # Pending)
        => /\ fn_result.ok
           /\ fn_result.name = fn_args.name
           /\ fn_result.symbol = fn_args.symbol

\* C11 witness: a payload whose name has a two-byte character and whose
\* symbol is followed by further bytes was decoded.
C11_ParsedWithTrailingBytes ==
    /\ fn_args.fn = "parse_create_instruction"
    /\ fn_result # Pending
    /\ fn_result.ok
    /\ \E i \in 1..Len(fn_args.name) : fn_args.name[i] >= 128
    /\ fn_args.symbol # <<>>
    /\ Len(fn_args.extra) > 1

\* C12 as stated (refuted by the code): from_account_data returns an error
\* for a buffer of fewer than 57 bytes, and for every longer buffer that
\* holds the tag, the five u64 fields and the bool, with the creator or
\* without it, the curve with exactly the encoded values.
C12_DecodesEveryValidLayout ==
    (fn_args.fn = "from_account_data" /\ fn_result # Pending)
        => IF Len(fn_args.data) < MIN_ACCOUNT_LEN
           THEN fn_result.kind = "err"
           ELSE /\ fn_result.kind = "ok"
                /\ fn_result.virtual_token_reserves
                       = fn_args.virtual_token_reserves
                /\ fn_result.virtual_sol_reserves
                       = fn_args.virtual_sol_reserves
                /\ fn_result.real_token_reserves = fn_args.real_token_reserves
                /\ fn_result.real_sol_reserves = fn_args.real_sol_reserves
                /\ fn_result.token_total_supply = fn_args.token_total_supply
                /\ fn_result.complete = fn_args.complete

\* C13: an update is eligible exactly when its market cap in SOL is at
\* least the threshold derived from the minimum in USD and the SOL price:
\* eligible at the threshold itself and above, not eligible one lamport below.
C13_EligibleFromThreshold ==
    (fn_args.fn = "eligible" /\ fn_result # Pending)
        => (fn_result.eligible
               <=> fn_args.virtual_sol_reserves >= fn_args.threshold)

\* C13 witness: reserves exactly at the threshold were found eligible.
C13_EligibleAtThreshold ==
    /\ fn_args.fn = "eligible"
    /\ fn_result # Pending
    /\ fn_args.virtual_sol_reserves = fn_args.threshold
    /\ fn_result.eligible

C15_PayloadEncodesQuote ==
    (fn_args.fn = "build_buy_transaction" /\ fn_result # Pending) =>
        /\ Len(fn_result.data) = 26
        /\ Slice(fn_result.data, 0, 8) = BUY_DISCRIMINATOR
        /\ u64_from_le_bytes(Slice(fn_result.data, 8, 16))
               = fn_result.min_tokens_out
        /\ u64_from_le_bytes(Slice(fn_result.data, 16, 24))
               = fn_result.max_sol_cost
        /\ fn_result.max_sol_cost
               = BigDivMod(BigMulSmall(fn_args.buy_amount_lamports, 102),
                           BigOf(100)).q
        /\ Slice(fn_result.data, 24, 26) = <<1, 0>>

\* C16: the phases of the scheduler follow one another: a watch cycle
\* starts only when none is active, current_batch is drained only when no
\* watch cycle is active and only out of a collection sleep, the sleep
\* begins only when the cycle has ended (or the batch was empty), and a
\* drain takes everything pushed since the previous drain, the tokens
\* pushed during the previous watch cycle included.
C16_PhasesSequential ==
    [][ /\ (spc' = "loop" /\ spc = "drained")
               => (token_map = <<>> /\ found_tokens = {})
        /\ drained' # drained
               => /\ ~Watching /\ token_map = <<>>
                  /\ late \subseteq Range(batch')
                  /\ drained' = appended
        /\ (spc' = "lock_batch" /\ spc # "lock_batch") => spc = "sleep"
        /\ (spc' = "sleep" /\ spc # "sleep")
               => /\ Watching \/ (spc = "drained" /\ batch = <<>>)
                  /\ token_map' = <<>> /\ batch' = <<>>
      ]_vars

\* C16 witness: a drain that is not the first, made after the collection
\* sleep that followed a watch cycle, took the token that was pushed while
\* that cycle ran.
C16_DrainCoversPreviousWatch ==
    /\ spc = "drop_guard"
    /\ Len(drained) > Len(batch)
    /\ carry # {}
    /\ carry \subseteq Range(batch)
    /\ token_map = <<>>

\* C17: an empty drained batch starts no watch cycle (no subscription, no
\* token map): the scheduler goes from it to its next collection sleep; a
\* watch cycle only ever runs on a non-empty batch.
C17_EmptyBatchSkipsWatching ==
    /\ [](Watching => (batch # <<>> /\ token_map # <<>>))
    /\ [][ (spc = "drained" /\ batch = <<>>)
               => (spc' \in {"drained", "sleep"} /\ token_map' = <<>>) ]_vars

\* C17 witness: a drain after earlier pushes took nothing.
C17_EmptyBatchDrained ==
    /\ spc = "drained"
    /\ batch = <<>>
    /\ drained # <<>>

\* C18: a stream error item leaves the watcher running with
\* processed_tokens and current_batch as they were; the watcher returns
\* only from its receive, when the stream has ended, and nothing else ends
\* it.
C18_StreamErrorNotFatal ==
    /\ [](wpc # "returned_err")
    /\ [][ /\ (wpc = "recv" /\ wpc' = "stream_error")
                  => /\ processed_tokens' = processed_tokens
                     /\ current_batch' = current_batch
           /\ wpc = "stream_error"
                  => /\ wpc' \in {"stream_error", "recv"}
                     /\ processed_tokens' = processed_tokens
                     /\ wpc' = "recv" => current_batch' = current_batch
           /\ (wpc' = "returned" /\ wpc # "returned") => wpc = "recv"
           /\ wpc = "returned" => wpc' = "returned"
         ]_vars

\* C18 witness: the watcher has logged a stream error while tokens were
\* seen and one was pending.
C18_StreamErrorLogged ==
    /\ wpc = "stream_error"
    /\ processed_tokens # {}
    /\ current_batch # <<>>

\* the tokens that a transaction can yield: what the first instruction, in
\* order, that starts with the create opcode decodes to
FirstCreateTokens(tx) ==
    { DecodeCreate(tx.instructions[i], tx.account_keys).token :
        i \in { k \in 1..Len(tx.instructions) :
                  /\ StartsWith(tx.instructions[k], CREATE_DISCRIMINATOR)
                  /\ \A j \in 1..(k - 1) :
                         ~StartsWith(tx.instructions[j], CREATE_DISCRIMINATOR)
                  /\ DecodeCreate(tx.instructions[k], tx.account_keys).ok } }

\* C19: every token pushed comes from the first create instruction of a
\* transaction, never from a later one (whether the first one was handled
\* or failed), and one transaction pushes at most one token.
C19_FirstCreateOnly ==
    /\ [](\A i \in 1..Len(appended) :
              \E tx \in Transactions : appended[i] \in FirstCreateTokens(tx))
    /\ [](wtoken # NoToken
              => \E tx \in Transactions : wtoken \in FirstCreateTokens(tx))
    /\ [][ appended' # appended
               => /\ Len(appended') = Len(appended) + 1
                  /\ wpc = "push" /\ wpc' = "recv" ]_vars

\* C19 witness: the first create instruction of a transaction failed to
\* parse; its second, well formed one was not handled, the mint it names is
\* unseen.
C19_LaterCreateIgnored ==
    /\ wpc = "failed_parse"
    /\ dropped # {}
    /\ dropped \cap processed_tokens = {}

\* C20: a create event that fails (fewer than 3 keys, or a payload that
\* does not parse) changes neither processed_tokens nor current_batch and
\* the watcher goes back to its receive; a pushed token has the creator of
\* key 0, the mint of key 1 and the pool of key 2.
C20_FailedCreateDropped ==
    /\ [][ /\ (wpc = "recv" /\ wpc' \in {"failed_keys", "failed_parse"})
                  => /\ processed_tokens' = processed_tokens
                     /\ current_batch' = current_batch
           /\ wpc \in {"failed_keys", "failed_parse"}
                  => /\ wpc' \in {wpc, "recv"}
                     /\ processed_tokens' = processed_tokens
                     /\ wpc' = "recv" => current_batch' = current_batch
         ]_vars
    /\ [](\A i \in 1..Len(appended) :
              /\ appended[i].creator = "Creator1"
              /\ \E k \in 1..NumMints :
                     /\ appended[i].mint = B58[MintKey(k)]
                     /\ appended[i].bonding_curve = B58[PoolKey(k)])

\* C20 witness: the watcher is pushing the token of a mint whose earlier
\* create event was dropped.
C20_AcceptedAfterDrop ==
    /\ wpc = "push"
    /\ wtoken.mint \in dropped
    /\ wtoken.mint \in processed_tokens
    /\ wtoken.mint \notin MintsOf(appended)

\* C21: parse_create_instruction succeeds exactly on the buffers that hold
\* 8 bytes, a 4-byte length with that many bytes after it, and again a
\* 4-byte length with that many bytes after it; on every other buffer it
\* returns one of its five errors; on success name and symbol are the
\* declared bytes, all inside the buffer.
C21_ErrorIffTooShort ==
    (fn_args.fn = "parse_create_instruction(buffer)" /\ fn_result # Pending)
        =>
        LET data == fn_args.data
            len == Len(data)
            HasName == len >= 12
            n == from_le_bytes(SubSeq(data, 9, 12))
            HasSymbolLen == HasName /\ len >= 16 + n
            m == from_le_bytes(SubSeq(data, 13 + n, 16 + n))
            Complete == HasSymbolLen /\ len >= 16 + n + m
        IN /\ fn_result.ok <=> Complete
           /\ ~fn_result.ok =>
                  fn_result.err \in
                      { "Data too short", "Cannot read name length",
                        "Name data out of bounds",
                        "Cannot read symbol length",
                        "Symbol data out of bounds" }
           /\ fn_result.ok =>
                  /\ fn_result.name
                         = from_utf8_lossy(SubSeq(data, 13, 12 + n))
                  /\ fn_result.symbol
                         = from_utf8_lossy(SubSeq(data, 17 + n, 16 + n + m))

\* C21 witness: a buffer whose symbol length declares one byte more than
\* the buffer holds was rejected.
C21_SymbolLengthTooLarge ==
    /\ fn_args.fn = "parse_create_instruction(buffer)"
    /\ fn_result # Pending
    /\ ~fn_result.ok
    /\ fn_result.err = "Symbol data out of bounds"
    /\ Len(fn_args.data) = 21

\* C22 as stated (refuted by the code): a built transaction ends with its
\* only trade instruction, preceded by one account-creation instruction if
\* and only if the lookup reported that the buyer's token account does not
\* exist, and by nothing otherwise.
C22_CreationIffReportedMissing ==
    (/\ fn_args.fn = "build_buy_transaction(rpc)"
     /\ fn_result # Pending
     /\ fn_result.kind = "ok")
        => LET ixs == fn_result.instructions IN
           /\ ixs # <<>>
           /\ ixs[Len(ixs)] = "buy"
           /\ Cardinality({ i \in 1..Len(ixs) : ixs[i] = "buy" }) = 1
           /\ IF fn_args.get_account = "Err(AccountNotFound)"
              THEN ixs = <<"create_ata", "buy">>
              ELSE ixs = <<"buy">>

\* C23: a mint is built at most once in the life of the process: no mint is
\* drained twice, the batch of a watch cycle is the latest drained segment,
\* and a build is for a mint of that batch, drained once, that was not
\* built before in the cycle.
C23_OneBuildPerMintEver ==
    /\ [](\A m \in MintsOf(drained) : Occurrences(drained, m) = 1)
    /\ [](Watching =>
              /\ Len(drained) >= Len(batch)
              /\ batch = SubSeq(drained, Len(drained) - Len(batch) + 1,
                                Len(drained)))
    /\ [][ \A m \in Mints :
               build_count'[m] > build_count[m]
                   => /\ build_count[m] = 0 /\ build_count'[m] = 1
                      /\ m \in MintsOf(batch)
                      /\ m \notin found_tokens
                      /\ Occurrences(drained, m) = 1 ]_vars

\* C23 witness: in a second watch cycle a mint of its batch has been built
\* while the mint of the first cycle has been drained.
C23_BuiltInLaterCycle ==
    /\ Watching
    /\ Len(drained) > Len(batch)
    /\ \E m \in MintsOf(batch) : build_count[m] = 1 /\ m \in found_tokens

\* C24 as stated (refuted by the code): under fair scheduling every token
\* appended to current_batch is eventually drained and is then part of a
\* running watch cycle, whatever the streams deliver.
C24_AppendedEventuallyWatched ==
    \A m \in Mints :
        (m \in MintsOf(appended) /\ m \notin MintsOf(drained))
            ~> (m \in MintsOf(drained) /\ m \in MintsOf(batch) /\ Watching)

\* C25: the two tasks cannot deadlock on the locks: the watcher has released
\* processed_tokens when it asks for current_batch and never holds both, the
\* scheduler only ever holds current_batch, a task leaves a lock request
\* only with the lock granted, and under fair scheduling no task stays at a
\* lock request for ever.
C25_NoDeadlockOnLocks ==
    /\ [](~(processed_lock = "watcher" /\ batch_lock = "watcher"))
    /\ [](wpc \in {"lock_batch", "push"} => processed_lock = "free")
    /\ [](processed_lock # "scheduler")
    /\ [](batch_lock = "scheduler" <=> spc \in {"drain", "drop_guard"})
    /\ [][(wpc = "lock_processed" /\ wpc' # wpc)
            => (wpc' = "check" /\ processed_lock' = "watcher")]_vars
    /\ [][(wpc = "lock_batch" /\ wpc' # wpc)
            => (wpc' = "push" /\ batch_lock' = "watcher")]_vars
    /\ [][(spc = "lock_batch" /\ spc' # spc)
            => (spc' = "drain" /\ batch_lock' = "scheduler")]_vars
    /\ []<>(wpc \notin {"lock_processed", "lock_batch"})
    /\ []<>(spc # "lock_batch")

\* C25 witness: the scheduler asks for current_batch while the watcher holds
\* it, having released processed_tokens.
C25_SchedulerWaitsForWatcher ==
    /\ spc = "lock_batch"
    /\ wpc = "push"
    /\ batch_lock = "watcher"
    /\ processed_lock = "free"

\* C26 as stated (refuted by the code): an update of a watch cycle that is
\* outside the batch, fails to decode or decodes as ineligible changes
\* nothing of the cycle: the found set, the builds and the batch stay as
\* they are and the cycle goes on to its next receive, where an eligible
\* update for the same mint is handled as if the first had not come.
C26_UnactedUpdateLeavesCycle ==
    [][ ( /\ spc = "recv"
          /\ \/ last_update'.outcome \in
                    {"outside", "decode_error", "ineligible"}
             \/ /\ last_update'.outcome = "panic"
                /\ panic_cause' = "from_account_data" )
        => /\ found_tokens' = found_tokens
           /\ build_count' = build_count
           /\ buy_tx' = buy_tx
           /\ batch' = batch
           /\ token_map' = token_map
           /\ spc' = "loop" ]_vars

\* C27 as stated (refuted by the code): the end of the transaction stream
\* does not stop the scheduler: the step that ends the watcher leaves the
\* scheduler where it is, under fair scheduling every token still in
\* current_batch at that moment is drained and watched, and the scheduler
\* keeps coming back to its collection sleep with nothing left to drain.
C27_SchedulerOutlivesWatcher ==
    /\ [][(wpc # "returned" /\ wpc' = "returned")
            => /\ spc' = spc
               /\ current_batch' = current_batch]_vars
    /\ \A m \in Mints :
           (wpc = "returned" /\ m \in MintsOf(current_batch))
               ~> (Watching /\ m \in MintsOf(batch))
    /\ (wpc = "returned")
           ~> (spc = "sleep" /\ current_batch = <<>> /\ batch = <<>>)
====
